---- MODULE Spec2Model ----
(***************************************************************************)
(* Model of the Calculation Service API (app/main.py, app/services.py).    *)
(*                                                                         *)
(* Numbers.  A Python number is a record [kind, val]: kind is "int" or     *)
(* "float" and val is its exact value counted in half units (val = 3 is    *)
(* 1.5, val = 4 is 2).  A float is a binary floating-point number with     *)
(* Precision mantissa bits, exponents 0..MaxExp and gradual underflow down *)
(* to one half unit; an int is any whole number (an even val).  The real   *)
(* format has 53 mantissa bits; the small format keeps every case of the   *)
(* real one (exact values, ties, integers too large to be represented).    *)
(***************************************************************************)
EXTENDS Integers, Sequences, FiniteSets, TLC

VARIABLES reqs, call, pkgVersion

vars == <<reqs, call, pkgVersion>>

\* ------------------------------------------------------------------ bounds
Precision == 3
MaxExp == 3
MaxLen == 3
MaxConcLen == 1
NumClients == 2

\* --------------------------------------------------------------- numbers
Abs(x) == IF x < 0 THEN -x ELSE x

RECURSIVE Pow2(_)
Pow2(e) == IF e = 0 THEN 1 ELSE 2 * Pow2(e - 1)

\* The magnitudes a float can hold: m * 2^e with m < 2^Precision.
FloatMagnitudes == {m * Pow2(e) : m \in 0..(Pow2(Precision) - 1), e \in 0..MaxExp}

IsFloatVal(v) == Abs(v) \in FloatMagnitudes

\* The exponent of the magnitude anum/den: the least e from e on whose
\* binade holds it.
RECURSIVE Exponent(_, _, _)
Exponent(anum, den, e) ==
    IF e = MaxExp \/ anum < Pow2(Precision + e) * den THEN e ELSE Exponent(anum, den, e + 1)

\* Conversion of the exact rational num/den (den > 0) to a float: the
\* quotient is cut to a mantissa at its exponent and rounded to nearest, a
\* tie going to the even mantissa.
RoundRat(num, den) ==
    LET a == Abs(num)
        e == Exponent(a, den, 0)
        q == den * Pow2(e)
        m == a \div q
        rem == a - m * q
        up == 2 * rem > q \/ (2 * rem = q /\ m % 2 = 1)
        mag == (IF up THEN m + 1 ELSE m) * Pow2(e)
    IN  IF num < 0 THEN -mag ELSE mag

PyInt(n) == [kind |-> "int", val |-> 2 * n]
PyFloat(v) == [kind |-> "float", val |-> v]

\* float(x) of a Python number.
ToFloat(x) == IF x.kind = "float" THEN x ELSE PyFloat(RoundRat(x.val, 1))

\* --------------------------------------------------- services.summarize
RECURSIVE SumVals(_)
SumVals(values) ==
    IF values = <<>> THEN 0 ELSE Head(values).val + SumVals(Tail(values))

\* Mutant of PyMin: the first element, whatever follows it.
PyMin_First(values) == values[1]

\* min(values): the first element no other element is smaller than.
PyMin(values) ==
    LET i == CHOOSE i \in 1..Len(values) :
                /\ \A j \in 1..Len(values) : values[i].val <= values[j].val
                /\ \A j \in 1..(i - 1) : values[j].val > values[i].val
    IN  values[i]

\* max(values): the first element no other element is larger than.
PyMax(values) ==
    LET i == CHOOSE i \in 1..Len(values) :
                /\ \A j \in 1..Len(values) : values[i].val >= values[j].val
                /\ \A j \in 1..(i - 1) : values[j].val < values[i].val
    IN  values[i]

\* Mutant of StatisticsMean: the sum, not divided by the count.
StatisticsMean_Sum(values) == PyFloat(RoundRat(SumVals(values), 1))

\* statistics.mean: the exact sum as a fraction over the count; an int when
\* the data are all ints and the quotient is whole, otherwise float(fraction).
StatisticsMean(values) ==
    LET n == Len(values)
        s == SumVals(values)
    IN  IF (\A i \in 1..n : values[i].kind = "int") /\ s % (2 * n) = 0
        THEN [kind |-> "int", val |-> s \div n]
        ELSE PyFloat(RoundRat(s, n))

\* Mutant of summarize: no check of the empty list, which summarises to zeros.
summarize_NoGuard(values) ==
    [kind |-> "return",
     count |-> Len(values),
     mean |-> IF Len(values) = 0 THEN PyFloat(0) ELSE StatisticsMean(values),
     min |-> IF Len(values) = 0 THEN PyFloat(0) ELSE PyMin(values),
     max |-> IF Len(values) = 0 THEN PyFloat(0) ELSE PyMax(values)]

summarize(values) ==
    IF Len(values) = 0
    THEN [kind |-> "raise", exc |-> "ValueError", msg |-> "Cannot summarize an empty list"]
    ELSE [kind |-> "return",
          count |-> Len(values),
          mean |-> StatisticsMean(values),
          min |-> PyMin(values),
          max |-> PyMax(values)]

\* ------------------------------------------------------ the request body
\* An element of a JSON array: a number, or a string, boolean or null.  val
\* is what a coercing parser would make of it ("1" and true are both 1).
StrElem == [kind |-> "str", val |-> 2]
BoolElem == [kind |-> "bool", val |-> 2]
NullElem == [kind |-> "null", val |-> 0]

NoBody == [enc |-> "none", hasValues |-> FALSE, isList |-> FALSE, values |-> <<>>]
TextBody == [enc |-> "text", hasValues |-> FALSE, isList |-> FALSE, values |-> <<>>]
MalformedBody == [enc |-> "malformed", hasValues |-> FALSE, isList |-> FALSE, values |-> <<>>]
NoValuesBody == [enc |-> "json", hasValues |-> FALSE, isList |-> FALSE, values |-> <<>>]
NotListBody == [enc |-> "json", hasValues |-> TRUE, isList |-> FALSE, values |-> <<>>]
ValuesBody(items) == [enc |-> "json", hasValues |-> TRUE, isList |-> TRUE, values |-> items]

\* ---------------------------------------------------------- responses
NoResp == [status |-> 0, body |-> [kind |-> "none"]]

DetailMessage(status, msg) ==
    [status |-> status, body |-> [kind |-> "detail", msg |-> msg, errors |-> <<>>]]

\* Mutant of ValidationErrorResponse: validation errors reported as 400.
ValidationErrorResponse_400(errors) ==
    [status |-> 400, body |-> [kind |-> "detail", msg |-> "", errors |-> errors]]

ValidationErrorResponse(errors) ==
    [status |-> 422, body |-> [kind |-> "detail", msg |-> "", errors |-> errors]]

NotFound == DetailMessage(404, "Not Found")

\* Mutant of MethodNotAllowed: a known path with another method is not found.
MethodNotAllowed_AsNotFound == DetailMessage(404, "Not Found")

MethodNotAllowed == DetailMessage(405, "Method Not Allowed")

InternalServerError == [status |-> 500, body |-> [kind |-> "text"]]

ErrorAt(type, field, index, msg) ==
    [type |-> type, field |-> field, index |-> index, msg |-> msg]

\* ------------------------------------------------- main.SummarizeRequest
\* Mutant of StrictFloat: the model is not strict, "1" and true become 1.0.
LaxFloat(e) ==
    IF e.kind = "float" THEN [ok |-> TRUE, value |-> e]
    ELSE IF e.kind \in {"int", "str", "bool"} THEN [ok |-> TRUE, value |-> PyFloat(RoundRat(e.val, 1))]
    ELSE [ok |-> FALSE, value |-> e]

\* Validation of one element as a float under strict = True: a float is
\* kept, an int is converted with float(), anything else is an error.
StrictFloat(e) ==
    IF e.kind = "float" THEN [ok |-> TRUE, value |-> e]
    ELSE IF e.kind = "int" THEN [ok |-> TRUE, value |-> ToFloat(e)]
    ELSE [ok |-> FALSE, value |-> e]

\* Mutant of ItemErrors: the indices count from 1.
RECURSIVE ItemErrors_OneBased(_, _)
ItemErrors_OneBased(items, i) ==
    IF i > Len(items) THEN <<>>
    ELSE (IF StrictFloat(items[i]).ok THEN <<>>
          ELSE <<ErrorAt("float_type", "values", i, "Input should be a valid number")>>)
         \o ItemErrors_OneBased(items, i + 1)

\* The errors of the elements, one for every failing index, in index order
\* (indices count from 0 as in the response).
RECURSIVE ItemErrors(_, _)
ItemErrors(items, i) ==
    IF i > Len(items) THEN <<>>
    ELSE (IF StrictFloat(items[i]).ok
          THEN <<>>
          ELSE <<ErrorAt("float_type", "values", i - 1, "Input should be a valid number")>>)
         \o ItemErrors(items, i + 1)

\* min_length = 1 of the field "values".
MinLength == 1

\* Mutant of TooShort: the field has no min_length.
TooShort_Never(items) == FALSE

TooShort(items) == Len(items) < MinLength

\* The field validator: the first element that is no int or float, or is a
\* bool (a subclass of int), raises; otherwise the list is returned.
validate_values_strict(v) ==
    LET notNumber(i) == v[i].kind \notin {"int", "float", "bool"}
        isBool(i) == v[i].kind = "bool"
        bad == {i \in 1..Len(v) : notNumber(i) \/ isBool(i)}
    IN  IF bad = {}
        THEN [ok |-> TRUE, index |-> -1, msg |-> ""]
        ELSE LET i == CHOOSE i \in bad : \A j \in bad : i <= j
             IN  [ok |-> FALSE, index |-> i - 1,
                  msg |-> IF notNumber(i) THEN "must be a number" ELSE "must be a number, not boolean"]

\* SummarizeRequest(**payload): the field "values" is required, must be a
\* list of at least one element, each a strict float; the field validator
\* runs on the list the field validation produced.
SummarizeRequest(payload) ==
    IF payload.kind = "none"
    THEN [errors |-> <<ErrorAt("missing", "body", -1, "Field required")>>, values |-> <<>>]
    ELSE IF payload.kind = "bytes"
    THEN [errors |-> <<ErrorAt("model_attributes_type", "body", -1,
                               "Input should be a valid dictionary or object to extract fields from")>>,
          values |-> <<>>]
    ELSE IF ~payload.hasValues
    THEN [errors |-> <<ErrorAt("missing", "values", -1, "Field required")>>, values |-> <<>>]
    ELSE IF ~payload.isList
    THEN [errors |-> <<ErrorAt("list_type", "values", -1, "Input should be a valid list")>>,
          values |-> <<>>]
    ELSE IF ItemErrors(payload.values, 1) # <<>>
    THEN [errors |-> ItemErrors(payload.values, 1), values |-> <<>>]
    ELSE IF TooShort(payload.values)
    THEN [errors |-> <<ErrorAt("too_short", "values", -1,
                               "List should have at least 1 item after validation, not 0")>>,
          values |-> <<>>]
    ELSE LET v == [i \in 1..Len(payload.values) |-> StrictFloat(payload.values[i]).value]
             checked == validate_values_strict(v)
         IN  IF checked.ok
             THEN [errors |-> <<>>, values |-> v]
             ELSE [errors |-> <<ErrorAt("value_error", "values", checked.index, checked.msg)>>,
                   values |-> <<>>]

\* ------------------------------------------------ main.SummarizeResponse
SummarizeResponse(result) ==
    [status |-> 200,
     body |-> [kind |-> "summary",
               count |-> result.count,
               mean |-> ToFloat(result.mean),
               min |-> ToFloat(result.min),
               max |-> ToFloat(result.max)]]

\* The endpoint function: an exception of summarize is not handled and
\* becomes the server's 500 response.
calculate_summary(values) ==
    LET result == summarize(values)
    IN  IF result.kind = "raise" THEN InternalServerError ELSE SummarizeResponse(result)

health_check(installed) ==
    [status |-> 200,
     body |-> [kind |-> "health", status |-> "ok",
               version |-> IF installed = "" THEN "1.0.0" ELSE installed]]

root == [status |-> 200, body |-> [kind |-> "info", message |-> "Calculation Service API", version |-> "1.0.0"]]

\* Mutant of Routes: the summarize route accepts PUT as well.
Routes_AnyMethod ==
    {[path |-> "/", method |-> "GET", endpoint |-> "root"],
     [path |-> "/health", method |-> "GET", endpoint |-> "health_check"],
     [path |-> "/calc/summarize", method |-> "POST", endpoint |-> "calculate_summary"],
     [path |-> "/calc/summarize", method |-> "PUT", endpoint |-> "calculate_summary"]}

\* ---------------------------------------------------------------- routes
Routes == {[path |-> "/", method |-> "GET", endpoint |-> "root"],
           [path |-> "/health", method |-> "GET", endpoint |-> "health_check"],
           [path |-> "/calc/summarize", method |-> "POST", endpoint |-> "calculate_summary"]}

\* json.loads of the request body, as the framework reads it: no body gives
\* None, a body that is not JSON is kept as bytes, a JSON int literal is an
\* int and a JSON real literal the nearest float.
DecodeNumber(e) == IF e.kind = "float" THEN PyFloat(RoundRat(e.val, 1)) ELSE e

DecodeBody(body) ==
    [kind |-> IF body.enc = "none" THEN "none" ELSE IF body.enc = "text" THEN "bytes" ELSE "dict",
     hasValues |-> body.hasValues,
     isList |-> body.isList,
     values |-> [i \in 1..Len(body.values) |-> DecodeNumber(body.values[i])]]

\* ------------------------------------------------------------------ state
\* reqs[s]: the request client s has in flight and how far the server is
\*   with it (pc), what it decoded and validated, which components ran for
\*   it, and its response.
\* call: a direct call of services.summarize and what it gave.
\* pkgVersion: the version of the installed package "app" ("" when it is
\*   not installed), which health_check looks up.
NoRequest == [method |-> "", path |-> "", query |-> "", body |-> NoBody]
NoPayload == [kind |-> "unread", hasValues |-> FALSE, isList |-> FALSE, values |-> <<>>]

Idle == [pc |-> "idle", req |-> NoRequest, endpoint |-> "", payload |-> NoPayload,
         values |-> <<>>, ran |-> {}, resp |-> NoResp]

IdleCall == [pc |-> "idle", arg |-> <<>>, list |-> <<>>, result |-> [kind |-> "none"],
             again |-> [kind |-> "none"]]

AllIdle == \A s \in DOMAIN reqs : reqs[s].pc = "idle"

Respond(s, resp) == [reqs EXCEPT ![s].pc = "done", ![s].resp = resp]

\* The client sends a request.
Receive(s, offered) ==
    /\ reqs[s].pc = "idle"
    /\ call.pc = "idle"
    /\ \E r \in offered : reqs' = [reqs EXCEPT ![s] = [Idle EXCEPT !.pc = "received", !.req = r]]
    /\ UNCHANGED <<call, pkgVersion>>

\* The router: an unknown path is 404, a known path with another method is
\* 405, otherwise the route's endpoint is selected.
Route(s) ==
    /\ reqs[s].pc = "received"
    /\ LET onPath == {rt \in Routes : rt.path = reqs[s].req.path}
           match == {rt \in onPath : rt.method = reqs[s].req.method}
       IN  reqs' = IF onPath = {} THEN Respond(s, NotFound)
                   ELSE IF match = {} THEN Respond(s, MethodNotAllowed)
                   ELSE [reqs EXCEPT ![s].pc = "routed",
                                     ![s].endpoint = (CHOOSE rt \in match : TRUE).endpoint]
    /\ UNCHANGED <<call, pkgVersion>>

Root(s) ==
    /\ reqs[s].pc = "routed"
    /\ reqs[s].endpoint = "root"
    /\ reqs' = Respond(s, root)
    /\ UNCHANGED <<call, pkgVersion>>

HealthCheck(s) ==
    /\ reqs[s].pc = "routed"
    /\ reqs[s].endpoint = "health_check"
    /\ reqs' = Respond(s, health_check(pkgVersion))
    /\ UNCHANGED <<call, pkgVersion>>

\* The body of a request to calculate_summary is read and decoded; a body
\* sent as JSON that does not decode is answered 422.
ReadBody(s) ==
    /\ reqs[s].pc = "routed"
    /\ reqs[s].endpoint = "calculate_summary"
    /\ reqs' = IF reqs[s].req.body.enc = "malformed"
               THEN Respond(s, ValidationErrorResponse(
                        <<ErrorAt("json_invalid", "body", -1, "JSON decode error")>>))
               ELSE [reqs EXCEPT ![s].pc = "decoded",
                                 ![s].payload = DecodeBody(reqs[s].req.body)]
    /\ UNCHANGED <<call, pkgVersion>>

\* The decoded body is validated as a SummarizeRequest.
Validate(s) ==
    /\ reqs[s].pc = "decoded"
    /\ LET request == SummarizeRequest(reqs[s].payload)
           ran == reqs[s].ran \cup {"Validator"}
       IN  reqs' = IF request.errors # <<>>
                   THEN [reqs EXCEPT ![s].pc = "done", ![s].ran = ran,
                                     ![s].resp = ValidationErrorResponse(request.errors)]
                   ELSE [reqs EXCEPT ![s].pc = "validated", ![s].ran = ran,
                                     ![s].values = request.values]
    /\ UNCHANGED <<call, pkgVersion>>

\* Mutant of RequestValues: the validated list is kept in one place for all
\* requests, and the endpoint function reads what is there.
RequestValues_Shared(s) ==
    LET t == CHOOSE t \in DOMAIN reqs :
                /\ reqs[t].pc = "validated"
                /\ \A u \in DOMAIN reqs : reqs[u].pc = "validated" => t <= u
    IN  reqs[t].values

\* request.values as the endpoint function reads it.
RequestValues(s) == reqs[s].values

\* The endpoint function runs on the validated request.
CalculateSummary(s) ==
    /\ reqs[s].pc = "validated"
    /\ reqs' = [reqs EXCEPT ![s].pc = "done",
                            ![s].ran = reqs[s].ran \cup {"Summarizer"},
                            ![s].resp = calculate_summary(RequestValues(s))]
    /\ UNCHANGED <<call, pkgVersion>>

\* The client has its response; the request is over.
Close(s) ==
    /\ reqs[s].pc = "done"
    /\ reqs' = [reqs EXCEPT ![s] = Idle]
    /\ UNCHANGED <<call, pkgVersion>>

\* Mutant of ListAfterSummarize: the list is sorted in place (values.sort())
\* to find its ends.
RECURSIVE InsertByVal(_, _)
InsertByVal(x, sorted) ==
    IF sorted = <<>> THEN <<x>>
    ELSE IF x.val < Head(sorted).val THEN <<x>> \o sorted
    ELSE <<Head(sorted)>> \o InsertByVal(x, Tail(sorted))

RECURSIVE ListAfterSummarize_Sorted(_)
ListAfterSummarize_Sorted(values) ==
    IF values = <<>> THEN <<>>
    ELSE InsertByVal(values[Len(values)],
                     ListAfterSummarize_Sorted(SubSeq(values, 1, Len(values) - 1)))

\* The caller's list object once summarize(values) is over: the truth test,
\* len, statistics.mean, min and max only read it.
ListAfterSummarize(values) == values

\* A caller other than the endpoint calls summarize(V), V one of the lists.
\* call.arg is the list as it was passed, call.list the caller's list object
\* as the call left it.
DirectCall(lists) ==
    /\ call.pc = "idle"
    /\ AllIdle
    /\ \E V \in lists : call' = [IdleCall EXCEPT !.pc = "returned", !.arg = V,
                                                 !.list = ListAfterSummarize(V),
                                                 !.result = summarize(V)]
    /\ UNCHANGED <<reqs, pkgVersion>>

\* The caller calls summarize a second time on the same list object.
DirectCallAgain ==
    /\ call.pc = "returned"
    /\ call' = [call EXCEPT !.pc = "returned twice",
                            !.list = ListAfterSummarize(call.list),
                            !.again = summarize(call.list)]
    /\ UNCHANGED <<reqs, pkgVersion>>

DirectReturn ==
    /\ call.pc \in {"returned", "returned twice"}
    /\ call' = IdleCall
    /\ UNCHANGED <<reqs, pkgVersion>>

\* ------------------------------------------------------------ the inputs
SeqsUpTo(S, n) == UNION {[1..k -> S] : k \in 0..n}

Methods == {"GET", "POST", "PUT", "DELETE"}
Versions == {"", "0.3.0"}

\* Elements of request bodies: ints a float holds and one it does not (9),
\* floats, and the three kinds that are no numbers.
HttpNumbers == {PyInt(2), PyInt(9)} \cup {PyFloat(v) : v \in {x \in {-2, 3} : IsFloatVal(x)}}
HttpElems == HttpNumbers \cup {StrElem, BoolElem, NullElem}

Bodies == {NoBody, TextBody, MalformedBody, NoValuesBody, NotListBody}
              \cup {ValuesBody(items) : items \in SeqsUpTo(HttpElems, MaxLen)}

SummarizeRequests ==
    {[method |-> m, path |-> "/calc/summarize", query |-> "", body |-> b] : m \in Methods, b \in Bodies}
    \cup {[method |-> m, path |-> "/calc/summarize", query |-> "values=1&values=2&values=3", body |-> NoBody] :
             m \in Methods}

OtherRequests ==
    {[method |-> m, path |-> p, query |-> "", body |-> NoBody] :
        m \in Methods, p \in {"/", "/health", "/nonexistent"}}

Requests == SummarizeRequests \cup OtherRequests

\* Arguments of direct calls: ints (among them 18 and 19, which no float of
\* the format holds) and floats.
DirectNumbers == {PyInt(-1), PyInt(2), PyInt(18), PyInt(19)}
                     \cup {PyFloat(v) : v \in {x \in {3, 16} : IsFloatVal(x)}}
DirectLists == SeqsUpTo(DirectNumbers, MaxLen)

\* Requests of concurrent clients.
ConcElems == {PyInt(2), StrElem} \cup {PyFloat(v) : v \in {x \in {7} : IsFloatVal(x)}}
ConcRequests ==
    {[method |-> "POST", path |-> "/calc/summarize", query |-> "", body |-> b] :
        b \in {MalformedBody} \cup {ValuesBody(items) : items \in SeqsUpTo(ConcElems, MaxConcLen)}}
    \cup {[method |-> "GET", path |-> p, query |-> "", body |-> NoBody] :
             p \in {"/calc/summarize", "/health"}}

\* ------------------------------------------------------- specifications
\* One client, which sends requests one at a time and also calls summarize.
Init ==
    /\ reqs = [s \in {1} |-> Idle]
    /\ call = IdleCall
    /\ pkgVersion \in Versions

Next ==
    \/ \E s \in DOMAIN reqs : Receive(s, Requests)
    \/ \E s \in DOMAIN reqs : Route(s)
    \/ \E s \in DOMAIN reqs : Root(s)
    \/ \E s \in DOMAIN reqs : HealthCheck(s)
    \/ \E s \in DOMAIN reqs : ReadBody(s)
    \/ \E s \in DOMAIN reqs : Validate(s)
    \/ \E s \in DOMAIN reqs : CalculateSummary(s)
    \/ \E s \in DOMAIN reqs : Close(s)
    \/ DirectCall(DirectLists)
    \/ DirectCallAgain
    \/ DirectReturn

Spec == Init /\ [][Next]_vars

\* NumClients clients whose requests the server handles concurrently.
InitConc ==
    /\ reqs = [s \in 1..NumClients |-> Idle]
    /\ call = IdleCall
    /\ pkgVersion \in Versions

NextConc ==
    \/ \E s \in DOMAIN reqs : Receive(s, ConcRequests)
    \/ \E s \in DOMAIN reqs : Route(s)
    \/ \E s \in DOMAIN reqs : HealthCheck(s)
    \/ \E s \in DOMAIN reqs : ReadBody(s)
    \/ \E s \in DOMAIN reqs : Validate(s)
    \/ \E s \in DOMAIN reqs : CalculateSummary(s)
    \/ \E s \in DOMAIN reqs : Close(s)

SpecConc == InitConc /\ [][NextConc]_vars

\* ============================================================== properties
\* What the properties speak about.
Clients == DOMAIN reqs
Done(s) == reqs[s].pc = "done"
OnSummarize(s) == reqs[s].req.path = "/calc/summarize"
PostSummarize(s) == OnSummarize(s) /\ reqs[s].req.method = "POST"

\* The request body is {"values": [...]} and Sent(s) is the list.
SentList(s) ==
    /\ reqs[s].req.body.enc = "json"
    /\ reqs[s].req.body.hasValues
    /\ reqs[s].req.body.isList
Sent(s) == reqs[s].req.body.values

GenuineNumbers(V) == \A i \in 1..Len(V) : V[i].kind \in {"int", "float"}
NotGenuine(V) == {i \in 1..Len(V) : V[i].kind \in {"str", "bool", "null"}}

\* Every element is a value a float holds exactly.
Representable(V) == \A i \in 1..Len(V) : IsFloatVal(V[i].val)

Smallest(V) == CHOOSE v \in {V[i].val : i \in 1..Len(V)} : \A j \in 1..Len(V) : v <= V[j].val
Largest(V) == CHOOSE v \in {V[i].val : i \in 1..Len(V)} : \A j \in 1..Len(V) : v >= V[j].val

RECURSIVE Total(_, _)
Total(V, n) == IF n = 0 THEN 0 ELSE V[n].val + Total(V, n - 1)

\* m is the sum of V divided by its length: the quotient itself, or, as a
\* float, a float no other float is nearer to the quotient than.
MaxFloat == (Pow2(Precision) - 1) * Pow2(MaxExp)
IsQuotient(m, V) ==
    LET n == Len(V)
        S == Total(V, n)
    IN  \/ m.val * n = S
        \/ /\ m.kind = "float"
           /\ IsFloatVal(m.val)
           /\ \A q \in (-MaxFloat)..MaxFloat :
                 IsFloatVal(q) => Abs(m.val * n - S) <= Abs(q * n - S)

\* r holds exactly the four values of the summary of V.
IsSummaryOf(r, V) ==
    /\ r.count = Len(V)
    /\ r.min.val = Smallest(V)
    /\ r.max.val = Largest(V)
    /\ IsQuotient(r.mean, V)

IsSummary200(s) == reqs[s].resp.status = 200 /\ reqs[s].resp.body.kind = "summary"
Is422Detail(s) == reqs[s].resp.status = 422 /\ reqs[s].resp.body.kind = "detail"

InBounds(r) == r.min.val <= r.mean.val /\ r.mean.val <= r.max.val
AllEqual(V) == \A i, j \in 1..Len(V) : V[i].val = V[j].val

\* C2 as stated: for every non-empty list V of finite numbers
\* min <= mean <= max in summarize(V), with equality on both sides when all
\* elements are equal.
C2_Stated ==
    (call.pc = "returned" /\ call.arg # <<>>)
       => /\ InBounds(call.result)
          /\ AllEqual(call.arg) =>
                (call.result.min.val = call.result.mean.val /\ call.result.mean.val = call.result.max.val)

\* C2 as amended: min <= mean <= max holds for every non-empty list whose
\* smallest and largest element are values a float holds exactly (every
\* list of floats, every list the endpoint validated); the mean of a list
\* of equal elements equals them, whatever they are.
C2_MeanInBounds ==
    /\ (call.pc = "returned" /\ call.arg # <<>>)
          => /\ (IsFloatVal(Smallest(call.arg)) /\ IsFloatVal(Largest(call.arg)))
                   => InBounds(call.result)
             /\ AllEqual(call.arg) =>
                   (call.result.min.val = call.result.mean.val
                       /\ call.result.mean.val = call.result.max.val)
    /\ \A s \in Clients : (Done(s) /\ IsSummary200(s)) => InBounds(reqs[s].resp.body)

\* A list of two floats whose quotient no float holds: the mean is rounded.
C2_Witness ==
    /\ call.pc = "returned"
    /\ call.arg = <<PyFloat(3), PyFloat(16)>>
    /\ call.result.kind = "return"
    /\ call.result.mean.val * 2 # 19
    /\ call.result.min.val < call.result.mean.val
    /\ call.result.mean.val < call.result.max.val

\* C3: a "values" list with a string, a boolean or null at any index is
\* answered 422 with "detail" and never a summary: the request never
\* passes validation and summarize is not called for it.
C3_NoCoercion ==
    \A s \in Clients :
        (PostSummarize(s) /\ SentList(s) /\ NotGenuine(Sent(s)) # {})
           => /\ reqs[s].pc # "validated"
              /\ "Summarizer" \notin reqs[s].ran
              /\ Done(s) => Is422Detail(s)

C3_Witness ==
    /\ Done(1)
    /\ PostSummarize(1)
    /\ Sent(1) = <<PyInt(2), PyFloat(3), StrElem>>
    /\ Is422Detail(1)

\* C4: {"values": []} is rejected by the validation of the request with 422
\* and "detail"; summarize is not called and raises nothing.
C4_EmptyRejected ==
    \A s \in Clients :
        (PostSummarize(s) /\ SentList(s) /\ Sent(s) = <<>>)
           => /\ reqs[s].pc # "validated"
              /\ "Summarizer" \notin reqs[s].ran
              /\ Done(s) => (Is422Detail(s) /\ "Validator" \in reqs[s].ran
                                /\ reqs[s].resp.body.errors # <<>>)

C4_Witness ==
    /\ Done(1)
    /\ PostSummarize(1)
    /\ SentList(1)
    /\ Sent(1) = <<>>
    /\ reqs[1].resp.status = 422

\* A body without "values", with a "values" that is no list, or that is no
\* decodable JSON.
BadShape(s) ==
    \/ reqs[s].req.body.enc \in {"malformed", "text"}
    \/ reqs[s].req.body.enc = "json" /\ ~reqs[s].req.body.hasValues
    \/ reqs[s].req.body.enc = "json" /\ reqs[s].req.body.hasValues /\ ~reqs[s].req.body.isList

\* C5: a POST /calc/summarize whose body has no "values", a "values" that
\* is no list, or is not decodable JSON is answered 422 with "detail", never
\* 200.
C5_ShapeRejected ==
    \A s \in Clients :
        (PostSummarize(s) /\ BadShape(s))
           => /\ "Summarizer" \notin reqs[s].ran
              /\ Done(s) => (Is422Detail(s) /\ reqs[s].resp.body.errors # <<>>)

C5_Witness ==
    /\ Done(1)
    /\ PostSummarize(1)
    /\ reqs[1].req.body = MalformedBody
    /\ reqs[1].resp.status = 422

\* C6: summarize([]) raises ValueError "Cannot summarize an empty list" and
\* returns no summary, whole or partial; no validator is involved.
C6_EmptyRaises ==
    (call.pc = "returned" /\ call.arg = <<>>)
       => /\ call.result.kind = "raise"
          /\ call.result.exc = "ValueError"
          /\ call.result.msg = "Cannot summarize an empty list"
          /\ DOMAIN call.result \cap {"count", "mean", "min", "max"} = {}
          /\ \A s \in Clients : "Validator" \notin reqs[s].ran

C6_Witness == call.pc = "returned" /\ call.arg = <<>> /\ call.result.kind = "raise"

\* C7: a request to /calc/summarize with another method than POST is
\* answered 405 whatever its body or query: it ends at the router, its body
\* is never read, validated or summarised.
C7_MethodNotAllowed ==
    \A s \in Clients :
        (OnSummarize(s) /\ reqs[s].req.method # "POST")
           => /\ reqs[s].pc \in {"received", "done"}
              /\ reqs[s].ran = {}
              /\ reqs[s].payload = NoPayload
              /\ Done(s) => reqs[s].resp.status = 405

C7_Witness ==
    /\ Done(1)
    /\ OnSummarize(1)
    /\ reqs[1].req.method = "PUT"
    /\ Sent(1) = <<PyInt(2), StrElem>>
    /\ reqs[1].resp.status = 405

\* C8 as stated: a request to /calc/summarize with the wrong method is a
\* validation failure, answered 422 with "detail".
C8_Stated ==
    \A s \in Clients :
        (Done(s) /\ OnSummarize(s) /\ reqs[s].req.method # "POST") => Is422Detail(s)

\* The validation failures of a POST: bad shape, malformed body, empty
\* list, an element that is no number.
ValidationFailure(s) ==
    \/ BadShape(s)
    \/ reqs[s].req.body.enc = "none"
    \/ SentList(s) /\ (Sent(s) = <<>> \/ NotGenuine(Sent(s)) # {})

\* C8 as amended: bad shape, empty list, non-numeric element and malformed
\* body are the validation failures answered 422 with "detail"; the wrong
\* method is answered 405, its body {"detail": "Method Not Allowed"}.
C8_WrongMethodIs405 ==
    \A s \in Clients :
        (Done(s) /\ OnSummarize(s))
           => /\ reqs[s].req.method # "POST"
                 => /\ reqs[s].resp.status = 405
                    /\ reqs[s].resp.body.kind = "detail"
                    /\ reqs[s].resp.body.msg = "Method Not Allowed"
              /\ (reqs[s].req.method = "POST" /\ ValidationFailure(s)) => Is422Detail(s)
              /\ reqs[s].resp.status = 422 => (reqs[s].req.method = "POST" /\ ValidationFailure(s))

C8_Witness ==
    /\ Done(1)
    /\ OnSummarize(1)
    /\ reqs[1].req.method = "GET"
    /\ reqs[1].req.query # ""
    /\ reqs[1].resp.body.kind = "detail"
    /\ reqs[1].resp.status = 405

\* The lowest index (counted from 0) of an element that is no number.
FirstFailing(V) == (CHOOSE i \in NotGenuine(V) : \A j \in NotGenuine(V) : i <= j) - 1

\* C9: when elements of "values" are not genuine numbers the response
\* carries under "detail" a non-empty list of errors, each naming the index
\* of a failing element and why it failed, the lowest failing index among
\* them.
C9_FirstFailureReported ==
    \A s \in Clients :
        (Done(s) /\ PostSummarize(s) /\ SentList(s) /\ NotGenuine(Sent(s)) # {})
           => LET errors == reqs[s].resp.body.errors
              IN  /\ reqs[s].resp.body.kind = "detail"
                  /\ errors # <<>>
                  /\ \E k \in 1..Len(errors) : errors[k].index = FirstFailing(Sent(s))
                  /\ \A k \in 1..Len(errors) :
                        /\ errors[k].field = "values"
                        /\ errors[k].index + 1 \in NotGenuine(Sent(s))
                        /\ errors[k].type = "float_type"
                        /\ errors[k].msg # ""

C9_Witness ==
    /\ Done(1)
    /\ PostSummarize(1)
    /\ Sent(1) = <<PyInt(2), NullElem, BoolElem>>
    /\ Len(reqs[1].resp.body.errors) = 2
    /\ reqs[1].resp.body.errors[1].index = 1

\* The response of request r handled alone: the steps of its handling one
\* after the other, nothing else in between.
Alone(r) ==
    LET onPath == {rt \in Routes : rt.path = r.path}
        match == {rt \in onPath : rt.method = r.method}
        endpoint == (CHOOSE rt \in match : TRUE).endpoint
        request == SummarizeRequest(DecodeBody(r.body))
    IN  IF onPath = {} THEN NotFound
        ELSE IF match = {} THEN MethodNotAllowed
        ELSE IF endpoint = "root" THEN root
        ELSE IF endpoint = "health_check" THEN health_check(pkgVersion)
        ELSE IF r.body.enc = "malformed"
        THEN ValidationErrorResponse(<<ErrorAt("json_invalid", "body", -1, "JSON decode error")>>)
        ELSE IF request.errors # <<>> THEN ValidationErrorResponse(request.errors)
        ELSE calculate_summary(request.values)

\* C10: whatever other requests are in flight and however their handling
\* interleaves, a request gets the response it would get handled alone,
\* and what the server holds for it comes from its own request only.
C10_Stateless ==
    \A s \in Clients :
        /\ Done(s) => reqs[s].resp = Alone(reqs[s].req)
        /\ reqs[s].pc \in {"decoded", "validated"} => reqs[s].payload = DecodeBody(reqs[s].req.body)
        /\ reqs[s].pc = "validated" => reqs[s].values = SummarizeRequest(reqs[s].payload).values

\* Two requests with different lists, both answered while the other was in
\* flight.
C10_Witness ==
    /\ Done(1)
    /\ Done(2)
    /\ IsSummary200(1)
    /\ IsSummary200(2)
    /\ Sent(1) = <<PyInt(2)>>
    /\ Sent(2) = <<PyFloat(7)>>
    /\ reqs[1].resp.body.mean # reqs[2].resp.body.mean

====
